---------------------------- MODULE Spec2Model ----------------------------
(***************************************************************************)
(* Model of the Vosk voice recognition programs (voice_w_cbuff.cpp, the    *)
(* enhanced program with the preprocessing pipeline, and voice_basic.cpp). *)
(*                                                                         *)
(* Eight specifications share the variables:                               *)
(*   SpecRing    the CircularBuffer class driven directly by push and      *)
(*               getSmoothed calls of any length;                          *)
(*   SpecAGC     applyAGC driven directly by arbitrary blocks;             *)
(*   SpecStages  isAudioAboveNoiseGate and applyHighPassFilter driven      *)
(*               directly by blocks around their limits;                   *)
(*   SpecConst   paCallback fed constant blocks of amplitude 1000;         *)
(*   Spec        paCallback fed arbitrary blocks, with main and the        *)
(*               console thread that sets the stop flag;                   *)
(*   SpecBlocks  the same program fed blocks of every length up to         *)
(*               beyond the capacity of the ring buffer;                   *)
(*   SpecThreads the same program with every access to a shared variable   *)
(*               recorded;                                                 *)
(*   SpecFair    the same program with a main thread that is scheduled     *)
(*               fairly, for what happens eventually.                      *)
(*                                                                         *)
(* float values are represented in fixed point: the gain in units of       *)
(* 1/GainScale, the filter state in units of 1/FilterScale.  A float       *)
(* operation rounds its exact result to the nearest unit; a conversion     *)
(* static_cast<short> truncates toward zero, as in C++.                    *)
(***************************************************************************)
EXTENDS Integers, Sequences, FiniteSets, TLC

VARIABLES
    g_request_stop,              \* std::atomic<bool>
    g_last_partial_result_json,  \* std::string
    lastEmittedPartial,          \* history: the text of the last "Partial: " line
                                 \* printed since the last final result, "" if none
    g_current_gain,              \* std::atomic<float>, in units of 1/GainScale
    buffer, head, tail, count, capacity,   \* g_audio_buffer (CircularBuffer)
    prev_input, prev_output,     \* statics of preprocessAudio, 1/FilterScale
    program,                     \* which program runs: "cbuff" or "basic"
    mainPc,                      \* the next step of main
    consolePc,                   \* checkForQuitCommand: "idle", "reading", "done"
    stream,                      \* the PortAudio stream's state
    log,                         \* main's resource calls so far, in order
    statusGain,                  \* the gain last printed by main's status line
    nRead,                       \* characters read from the console so far
    nCalls,                      \* calls made by the driver so far
    nSubmit,                     \* blocks submitted to the recognizer so far
    history,                     \* every sample ever pushed to the ring, in order
    accesses,                    \* history: every access a thread has made to a
                                 \* shared variable, as [thread, var, mode]
    ret                          \* what the last call did and returned

vars == <<g_request_stop, g_last_partial_result_json, lastEmittedPartial,
          g_current_gain,
          buffer, head, tail, count, capacity, prev_input, prev_output,
          program, mainPc, consolePc, stream, log, statusGain, nRead,
          nCalls, nSubmit, history, accesses, ret>>

ringVars == <<buffer, head, tail, count, capacity>>

filterVars == <<prev_input, prev_output>>

cacheVars == <<g_last_partial_result_json, lastEmittedPartial>>

threadVars == <<program, mainPc, consolePc, stream, log, statusGain, nRead>>

-----------------------------------------------------------------------------
(* Bounds of the model *)

\* capacity of the ring buffer under test (the program uses AUDIO_BUFFER_SIZE)
Capacity == 3

\* push lengths 0..Capacity+MaxOverPush, so that a single push can exceed capacity
MaxOverPush == 1

\* total number of samples pushed in a run of SpecRing
MaxRingTotal == 7

\* units per 1.0 of the fixed-point representation of the gain
GainScale == 1000

\* units per 1.0 of the fixed-point representation of the filter state
FilterScale == 100

\* #define NOISE_GATE_THRESHOLD (500)
NOISE_GATE_THRESHOLD == 500

\* #define AGC_TARGET_LEVEL (8000)
AGC_TARGET_LEVEL == 8000

\* #define AGC_ADJUSTMENT_RATE (0.1f), as the divisor 1/0.1
AGC_RATE_DIV == 10

\* alpha = 0.95f, as the fraction ALPHA_NUM / ALPHA_DEN
ALPHA_NUM == 95

ALPHA_DEN == 100

\* the gain limits 0.1f and 10.0f of applyAGC, in units of 1/GainScale
MIN_GAIN == GainScale \div 10

MAX_GAIN == 10 * GainScale

\* samples per block (the program uses FRAMES_PER_BUFFER)
FramesPerBuffer == 2

\* number of blocks the driver delivers in a run of Spec
MaxCalls == 3

\* number of constant blocks the driver delivers in a run of SpecConst
MaxConstCalls == 80

\* number of constant blocks within which the gain has settled in SpecConst
ConstSettleCalls == 20

\* number of characters other than q and Q read from the console
MaxChars == 1

\* number of calls of applyAGC in a run of SpecAGC
MaxAgcCalls == 3

\* number of calls of the gate and of the filter in a run of SpecStages
MaxStageCalls == 3

SHORT_MIN == -32768

SHORT_MAX == 32767

-----------------------------------------------------------------------------
(* Helpers *)

Min(a, b) == IF a < b THEN a ELSE b

Max(a, b) == IF a > b THEN a ELSE b

Abs(a) == IF a < 0 THEN -a ELSE a

\* the last n elements of s (n <= Len(s))
LastN(s, n) == SubSeq(s, Len(s) - n + 1, Len(s))

\* all sequences over S of length 0..n
SeqsUpTo(S, n) == UNION { [1..k -> S] : k \in 0..n }

\* a / b truncated toward zero (b > 0): static_cast<short> of a float
TruncDiv(a, b) == IF a >= 0 THEN a \div b ELSE -((-a) \div b)

\* a / b rounded to the nearest unit (b > 0): the result of a float operation
RoundDiv(a, b) ==
    IF a >= 0 THEN (2 * a + b) \div (2 * b) ELSE -((2 * (-a) + b) \div (2 * b))

\* an access of mode "read" or "write" by a thread to a shared variable
Acc(thread, var, mode) == [thread |-> thread, var |-> var, mode |-> mode]

RECURSIVE SumSquares(_)
\* the sum of the squares of the samples of f
SumSquares(f) ==
    IF f = <<>> THEN 0 ELSE Head(f) * Head(f) + SumSquares(Tail(f))

RECURSIVE SumAbs(_)
\* the sum of the absolute values of the samples of f
SumAbs(f) ==
    IF f = <<>> THEN 0 ELSE Abs(Head(f)) + SumAbs(Tail(f))

-----------------------------------------------------------------------------
(* CircularBuffer *)

\* the object as a record
Ring == [buffer |-> buffer, head |-> head, tail |-> tail,
         count |-> count, capacity |-> capacity]

\* CircularBuffer(size): buffer(size) is value-initialised to zeros
NewRing(size) ==
    [buffer |-> [i \in 0..(size - 1) |-> 0], head |-> 0, tail |-> 0,
     count |-> 0, capacity |-> size]

\* mutant: count is incremented on every sample, also when the buffer is full
pushOne_countUnbounded(rb, x) ==
    [rb EXCEPT !.buffer[rb.head] = x,
               !.head = (rb.head + 1) % rb.capacity,
               !.count = rb.count + 1]

\* mutant: when the buffer is full the new sample is dropped, not the oldest
pushOne_dropNewest(rb, x) ==
    IF rb.count < rb.capacity
    THEN [rb EXCEPT !.buffer[rb.head] = x,
                    !.head = (rb.head + 1) % rb.capacity,
                    !.count = rb.count + 1]
    ELSE [rb EXCEPT !.head = (rb.head + 1) % rb.capacity]

\* one iteration of the loop of push
pushOne(rb, x) ==
    LET w == [rb EXCEPT !.buffer[rb.head] = x,
                        !.head = (rb.head + 1) % rb.capacity]
    IN  IF rb.count < rb.capacity
        THEN [w EXCEPT !.count = rb.count + 1]
        ELSE [w EXCEPT !.tail = (rb.tail + 1) % rb.capacity]

RECURSIVE push(_, _)
\* CircularBuffer::push(data, len), data a sequence of len samples
push(rb, data) ==
    IF data = <<>> THEN rb
    ELSE push(pushOne(rb, Head(data)), Tail(data))

\* mutant: the oldest len samples are returned, not the newest
getSmoothed_oldest(rb, len) ==
    IF rb.count < len THEN [result |-> <<>>, reads |-> {}]
    ELSE LET idx(i) == (rb.tail + i) % rb.capacity
         IN  [result |-> [i \in 1..len |-> rb.buffer[idx(i - 1)]],
              reads  |-> { idx(i) : i \in 0..(len - 1) }]

\* mutant: on wrap-around the start index is clipped to 0
getSmoothed_noWrap(rb, len) ==
    IF rb.count < len THEN [result |-> <<>>, reads |-> {}]
    ELSE LET start == IF rb.head >= len THEN rb.head - len ELSE 0
             idx(i) == (start + i) % rb.capacity
         IN  [result |-> [i \in 1..len |-> rb.buffer[idx(i - 1)]],
              reads  |-> { idx(i) : i \in 0..(len - 1) }]

\* mutant: the length is checked against capacity, not against count
getSmoothed_capacityCheck(rb, len) ==
    IF rb.capacity < len THEN [result |-> <<>>, reads |-> {}]
    ELSE LET start == IF rb.head >= len THEN rb.head - len
                      ELSE rb.capacity - (len - rb.head)
             idx(i) == (start + i) % rb.capacity
         IN  [result |-> [i \in 1..len |-> rb.buffer[idx(i - 1)]],
              reads  |-> { idx(i) : i \in 0..(len - 1) }]

\* CircularBuffer::getSmoothed(len): the vector returned and the set of
\* indices of buffer it reads.  len <= count <= capacity and head < capacity
\* past the guard, so the size_t subtractions do not wrap.
getSmoothed(rb, len) ==
    IF rb.count < len THEN [result |-> <<>>, reads |-> {}]
    ELSE LET start == IF rb.head >= len THEN rb.head - len
                      ELSE rb.capacity - (len - rb.head)
             idx(i) == (start + i) % rb.capacity
         IN  [result |-> [i \in 1..len |-> rb.buffer[idx(i - 1)]],
              reads  |-> { idx(i) : i \in 0..(len - 1) }]

SetRing(rb) ==
    /\ buffer' = rb.buffer
    /\ head' = rb.head
    /\ tail' = rb.tail
    /\ count' = rb.count
    /\ capacity' = rb.capacity

-----------------------------------------------------------------------------
(* The stages of the pipeline *)

\* mutant: a block whose RMS equals the threshold passes the gate
isAudioAboveNoiseGate_inclusive(audio_data) ==
    SumSquares(audio_data)
        >= NOISE_GATE_THRESHOLD * NOISE_GATE_THRESHOLD * Len(audio_data)

\* isAudioAboveNoiseGate: sqrt(sum / frame_count) > threshold, decided on the
\* squares (both sides are non-negative)
isAudioAboveNoiseGate(audio_data) ==
    SumSquares(audio_data)
        > NOISE_GATE_THRESHOLD * NOISE_GATE_THRESHOLD * Len(audio_data)

\* the clamp std::max(-32768.0f, std::min(32767.0f, v)) of a value in units
\* of 1/scale, followed by static_cast<short>
ToShort(v, scale) ==
    TruncDiv(Max(SHORT_MIN * scale, Min(SHORT_MAX * scale, v)), scale)

\* mutant: the state keeps the output as written, limited to 16 bits
filterOne_clampedState(st, x) ==
    LET input  == x * FilterScale
        output == RoundDiv(ALPHA_NUM * (st.prev_output + input - st.prev_input),
                           ALPHA_DEN)
    IN  [prev_input |-> input,
         prev_output |-> Max(SHORT_MIN * FilterScale,
                             Min(SHORT_MAX * FilterScale, output)),
         sample |-> ToShort(output, FilterScale)]

\* mutant: the filter passes the sample through
filterOne_passThrough(st, x) ==
    [prev_input |-> x * FilterScale, prev_output |-> x * FilterScale,
     sample |-> x]

\* one iteration of the loop of applyHighPassFilter on sample x with state
\* st = [prev_input, prev_output]: the new state and the sample written
filterOne(st, x) ==
    LET input  == x * FilterScale
        output == RoundDiv(ALPHA_NUM * (st.prev_output + input - st.prev_input),
                           ALPHA_DEN)
    IN  [prev_input |-> input, prev_output |-> output,
         sample |-> ToShort(output, FilterScale)]

RECURSIVE filterFrom(_, _, _)
filterFrom(st, audio_data, done) ==
    IF audio_data = <<>>
    THEN [prev_input |-> st.prev_input, prev_output |-> st.prev_output,
          audio_data |-> done]
    ELSE LET r == filterOne(st, Head(audio_data))
         IN  filterFrom(r, Tail(audio_data), Append(done, r.sample))

\* applyHighPassFilter(audio_data, frame_count, prev_input, prev_output):
\* the block as rewritten in place and the state left
applyHighPassFilter(audio_data, pin, pout) ==
    filterFrom([prev_input |-> pin, prev_output |-> pout], audio_data, <<>>)

\* mutant: the new gain is stored without being limited
agcGain_unclamped(current_gain, current_level_sum, frame_count) ==
    LET desired_gain ==
            RoundDiv(AGC_TARGET_LEVEL * GainScale * frame_count, current_level_sum)
    IN  current_gain + RoundDiv(desired_gain - current_gain, AGC_RATE_DIV)

\* the new gain of applyAGC for a block whose sum of absolute samples is
\* current_level_sum > 0: desired_gain = AGC_TARGET_LEVEL / current_level,
\* new_gain = current_gain + (desired_gain - current_gain) * rate, limited
agcGain(current_gain, current_level_sum, frame_count) ==
    LET desired_gain ==
            RoundDiv(AGC_TARGET_LEVEL * GainScale * frame_count, current_level_sum)
        new_gain ==
            current_gain + RoundDiv(desired_gain - current_gain, AGC_RATE_DIV)
    IN  Max(MIN_GAIN, Min(MAX_GAIN, new_gain))

\* mutant: the level test is dropped and a silent block gets the largest gain
applyAGC_noLevelTest(audio_data, current_gain) ==
    LET sum == SumAbs(audio_data)
        new_gain == IF sum > 0 THEN agcGain(current_gain, sum, Len(audio_data))
                    ELSE MAX_GAIN
    IN  [gain |-> new_gain,
         audio_data |-> [i \in 1..Len(audio_data) |->
                            ToShort(audio_data[i] * new_gain, GainScale)]]

\* applyAGC(audio_data, frame_count) with g_current_gain.load() = current_gain:
\* the gain stored (or left) and the block as rewritten in place
applyAGC(audio_data, current_gain) ==
    LET sum == SumAbs(audio_data)
    IN  IF sum > 0
        THEN LET new_gain == agcGain(current_gain, sum, Len(audio_data))
             IN  [gain |-> new_gain,
                  audio_data |-> [i \in 1..Len(audio_data) |->
                                     ToShort(audio_data[i] * new_gain, GainScale)]]
        ELSE [gain |-> current_gain, audio_data |-> audio_data]

\* mutant: the AGC is applied first, the filter on its result
preprocessAudio_agcFirst(audio_data, pin, pout, current_gain) ==
    LET a == applyAGC(audio_data, current_gain)
        f == applyHighPassFilter(a.audio_data, pin, pout)
    IN  [prev_input |-> f.prev_input, prev_output |-> f.prev_output,
         gain |-> a.gain, filtered |-> audio_data,
         audio_data |-> f.audio_data,
         stages |-> <<"applyAGC", "applyHighPassFilter">>]

\* preprocessAudio: the filter, then the AGC on the filtered block; stages
\* are the calls made, in order
preprocessAudio(audio_data, pin, pout, current_gain) ==
    LET f == applyHighPassFilter(audio_data, pin, pout)
        a == applyAGC(f.audio_data, current_gain)
    IN  [prev_input |-> f.prev_input, prev_output |-> f.prev_output,
         gain |-> a.gain, filtered |-> f.audio_data,
         audio_data |-> a.audio_data,
         stages |-> <<"applyHighPassFilter", "applyAGC">>]

\* blocks of FramesPerBuffer samples
ConstBlock(a) == [i \in 1..FramesPerBuffer |-> a]

ImpulseBlock(a) == [i \in 1..FramesPerBuffer |-> IF i = 1 THEN a ELSE 0]

SwingBlock ==
    [i \in 1..FramesPerBuffer |->
        IF i = 1 THEN SHORT_MIN ELSE IF i = 2 THEN SHORT_MAX ELSE 0]

PairBlock(a, b) ==
    [i \in 1..FramesPerBuffer |-> IF i = 1 THEN a ELSE IF i = 2 THEN b ELSE 0]

-----------------------------------------------------------------------------
(* The recognizer, as the callback sees it *)

\* a NULL inputBuffer (a delivered block is never empty)
NULL_BUFFER == <<>>

\* a NULL const char* returned by the recognizer
NULL_STR == "<NULL>"

\* s.find(pat) != std::string::npos
Contains(s, pat) ==
    \E i \in 1..(Len(s) - Len(pat) + 1) : SubSeq(s, i, i + Len(pat) - 1) = pat

P_EMPTY == "{\n  \"partial\" : \"\"\n}"

P_HI == "{\n  \"partial\" : \"hi\"\n}"

P_HELLO == "{\n  \"partial\" : \"hello\"\n}"

P_SHORT == "{\"partial\":\"a\"}"

F_EMPTY == "{\n  \"text\" : \"\"\n}"

F_HI == "{\n  \"text\" : \"hi\"\n}"

\* what vosk_recognizer_partial_result can return
PartialTexts == {NULL_STR, "", P_EMPTY, P_HI, P_HELLO, P_SHORT}

\* what vosk_recognizer_result and vosk_recognizer_final_result can return
FinalTexts == {NULL_STR, "", F_EMPTY, F_HI}

\* the status of vosk_recognizer_accept_waveform_s and the text its status
\* makes the callback fetch
RecognizerAnswers ==
    {[status |-> -1, text |-> NULL_STR]}
        \cup { [status |-> 0, text |-> t] : t \in PartialTexts }
        \cup { [status |-> 1, text |-> t] : t \in FinalTexts }

\* the minimum length of a partial that the enhanced program prints
MIN_PARTIAL_LENGTH == 20

\* mutant: the cache is cleared only when the final line is printed
handleStatus_clearOnPrint(vosk_status, text, cache) ==
    IF vosk_status = 0
    THEN IF /\ text # NULL_STR
            /\ Len(text) > 0
            /\ ~Contains(text, "\"partial\" : \"\"")
            /\ text # cache
            /\ (program = "cbuff" => Len(text) > MIN_PARTIAL_LENGTH)
         THEN [emitted |-> "Partial: " \o text, logged |-> "", cache |-> text]
         ELSE [emitted |-> "", logged |-> "", cache |-> cache]
    ELSE IF vosk_status > 0
    THEN IF /\ text # NULL_STR
            /\ Len(text) > 0
            /\ (program = "cbuff" => ~Contains(text, "\"text\" : \"\""))
         THEN [emitted |-> "Final:   " \o text, logged |-> "", cache |-> ""]
         ELSE [emitted |-> "", logged |-> "", cache |-> cache]
    ELSE [emitted |-> "", logged |-> "", cache |-> cache]

\* mutant: every status other than 0 is taken as a final result
handleStatus_errorAsFinal(vosk_status, text, cache) ==
    IF vosk_status = 0
    THEN IF /\ text # NULL_STR
            /\ Len(text) > 0
            /\ ~Contains(text, "\"partial\" : \"\"")
            /\ text # cache
            /\ (program = "cbuff" => Len(text) > MIN_PARTIAL_LENGTH)
         THEN [emitted |-> "Partial: " \o text, logged |-> "", cache |-> text]
         ELSE [emitted |-> "", logged |-> "", cache |-> cache]
    ELSE IF /\ text # NULL_STR
            /\ Len(text) > 0
            /\ (program = "cbuff" => ~Contains(text, "\"text\" : \"\""))
         THEN [emitted |-> "Final:   " \o text, logged |-> "", cache |-> ""]
         ELSE [emitted |-> "", logged |-> "", cache |-> ""]

\* mutant: a partial is printed also when it equals the last-partial cache
handleStatus_noDedup(vosk_status, text, cache) ==
    IF vosk_status = 0
    THEN IF /\ text # NULL_STR
            /\ Len(text) > 0
            /\ ~Contains(text, "\"partial\" : \"\"")
            /\ (program = "cbuff" => Len(text) > MIN_PARTIAL_LENGTH)
         THEN [emitted |-> "Partial: " \o text, logged |-> "", cache |-> text]
         ELSE [emitted |-> "", logged |-> "", cache |-> cache]
    ELSE IF vosk_status > 0
    THEN IF /\ text # NULL_STR
            /\ Len(text) > 0
            /\ (program = "cbuff" => ~Contains(text, "\"text\" : \"\""))
         THEN [emitted |-> "Final:   " \o text, logged |-> "", cache |-> ""]
         ELSE [emitted |-> "", logged |-> "", cache |-> ""]
    ELSE [emitted |-> "", logged |-> "", cache |-> cache]

\* the branches on vosk_status of paCallback: the line printed on std::cout
\* ("" for none), the line written to std::cerr ("" for none: no branch of
\* either program writes one) and the last-partial cache left; a negative
\* status enters neither branch
handleStatus(vosk_status, text, cache) ==
    IF vosk_status = 0
    THEN IF /\ text # NULL_STR
            /\ Len(text) > 0
            /\ ~Contains(text, "\"partial\" : \"\"")
            /\ text # cache
            /\ (program = "cbuff" => Len(text) > MIN_PARTIAL_LENGTH)
         THEN [emitted |-> "Partial: " \o text, logged |-> "", cache |-> text]
         ELSE [emitted |-> "", logged |-> "", cache |-> cache]
    ELSE IF vosk_status > 0
    THEN IF /\ text # NULL_STR
            /\ Len(text) > 0
            /\ (program = "cbuff" => ~Contains(text, "\"text\" : \"\""))
         THEN [emitted |-> "Final:   " \o text, logged |-> "", cache |-> ""]
         ELSE [emitted |-> "", logged |-> "", cache |-> ""]
    ELSE [emitted |-> "", logged |-> "", cache |-> cache]

-----------------------------------------------------------------------------
(* paCallback *)

\* mutant: the stop flag is not looked at
callbackStops_never == FALSE

\* if (g_request_stop) return paComplete;
callbackStops == g_request_stop

\* mutant: every block passes the gate
passesGate_always(audio_data) == TRUE

\* the gate of the enhanced program; the basic program has none
passesGate(audio_data) ==
    program = "cbuff" => isAudioAboveNoiseGate(audio_data)

\* what one invocation of paCallback does with inputBuffer when the recognizer
\* answers `answer': the directive returned, the state left, the calls made
\* on the block in order (stages) and the contents of the driver's buffer
\* afterwards (inputAfter: the stages work on the vector audio_data, the
\* basic program only reads the buffer)
callbackResult(inputBuffer, answer) ==
    LET same == [directive |-> "paContinue", belowGate |-> FALSE,
                 prev_input |-> prev_input, prev_output |-> prev_output,
                 gain |-> g_current_gain, ring |-> Ring, pushed |-> <<>>,
                 didSubmit |-> FALSE, submitted |-> <<>>, status |-> 0,
                 emitted |-> "", logged |-> "",
                 cache |-> g_last_partial_result_json,
                 stages |-> <<>>, inputAfter |-> inputBuffer,
                 accesses |-> {Acc("audio", "g_request_stop", "read")}]
        gated == [same EXCEPT !.stages = IF program = "cbuff"
                                         THEN <<"isAudioAboveNoiseGate">>
                                         ELSE <<>>]
        \* the cache is compared once the text has passed the tests before
        \* it, assigned when a partial is printed and cleared on every final
        cacheAccesses(h) ==
            (IF /\ answer.status = 0
                /\ answer.text # NULL_STR
                /\ Len(answer.text) > 0
                /\ ~Contains(answer.text, "\"partial\" : \"\"")
             THEN {Acc("audio", "g_last_partial_result_json", "read")}
             ELSE {})
            \cup (IF answer.status > 0 \/ (answer.status = 0 /\ h.emitted # "")
                  THEN {Acc("audio", "g_last_partial_result_json", "write")}
                  ELSE {})
        dispatch(r, block) ==
            LET h == handleStatus(answer.status, answer.text, r.cache)
            IN  [r EXCEPT !.didSubmit = TRUE, !.submitted = block,
                          !.status = answer.status,
                          !.emitted = h.emitted, !.logged = h.logged,
                          !.cache = h.cache,
                          !.stages = Append(r.stages,
                                        "vosk_recognizer_accept_waveform_s"),
                          !.accesses = r.accesses \cup cacheAccesses(h)]
        \* the statics of preprocessAudio are read and written by the filter,
        \* the gain is loaded by applyAGC and stored when the level is not 0,
        \* the ring is written by push and read by getSmoothed
        pipelineAccesses(filtered) ==
            { Acc("audio", v, mode) :
                v \in {"prev_input", "prev_output", "g_audio_buffer"},
                mode \in {"read", "write"} }
            \cup {Acc("audio", "g_current_gain", "read")}
            \cup (IF SumAbs(filtered) > 0
                  THEN {Acc("audio", "g_current_gain", "write")} ELSE {})
    IN  IF callbackStops THEN [same EXCEPT !.directive = "paComplete"]
        ELSE IF inputBuffer = NULL_BUFFER THEN same
        ELSE IF ~passesGate(inputBuffer) THEN [gated EXCEPT !.belowGate = TRUE]
        ELSE IF program = "cbuff"
        THEN LET p  == preprocessAudio(inputBuffer, prev_input, prev_output,
                                       g_current_gain)
                 rb == push(Ring, p.audio_data)
                 sm == getSmoothed(rb, Len(inputBuffer)).result
                 smoothed_audio == IF sm = <<>> THEN p.audio_data ELSE sm
             IN  dispatch([gated EXCEPT !.prev_input = p.prev_input,
                                        !.prev_output = p.prev_output,
                                        !.gain = p.gain, !.ring = rb,
                                        !.pushed = p.audio_data,
                                        !.stages = gated.stages \o p.stages
                                            \o <<"push", "getSmoothed">>,
                                        !.accesses = same.accesses \cup
                                            pipelineAccesses(p.filtered)],
                          smoothed_audio)
        ELSE dispatch(gated, inputBuffer)

\* one invocation of paCallback by the stream's thread
paCallback(inputBuffer, answer) ==
    /\ stream = "active"
    /\ \E r \in {callbackResult(inputBuffer, answer)} :
           /\ prev_input' = r.prev_input
           /\ prev_output' = r.prev_output
           /\ g_current_gain' = r.gain
           /\ SetRing(r.ring)
           /\ history' = history \o r.pushed
           /\ g_last_partial_result_json' = r.cache
           /\ lastEmittedPartial' =
                  IF r.didSubmit /\ r.status = 0 /\ r.emitted # ""
                  THEN answer.text
                  ELSE IF r.didSubmit /\ r.status > 0 THEN ""
                  ELSE lastEmittedPartial
           /\ nSubmit' = IF r.didSubmit THEN nSubmit + 1 ELSE nSubmit
           /\ stream' = IF r.directive = "paComplete" THEN "finished" ELSE stream
           /\ ret' = [fn |-> "paCallback", directive |-> r.directive,
                      input |-> inputBuffer, inputAfter |-> r.inputAfter,
                      stages |-> r.stages, belowGate |-> r.belowGate,
                      didSubmit |-> r.didSubmit, submitted |-> r.submitted,
                      status |-> r.status,
                      text |-> IF r.didSubmit THEN answer.text ELSE "",
                      emitted |-> r.emitted,
                      logged |-> r.logged,
                      cacheBefore |-> g_last_partial_result_json]
    /\ nCalls' = nCalls + 1
    /\ UNCHANGED <<g_request_stop, program, mainPc, consolePc, log, statusGain,
                   nRead>>

-----------------------------------------------------------------------------
(* SpecRing: the CircularBuffer driven directly *)

\* samples pushed in SpecRing: two values, neither the initial 0
RingSamples == {1, 2}

RingPushInputs == SeqsUpTo(RingSamples, Capacity + MaxOverPush)

RingGetInputs == 0..(Capacity + MaxOverPush)

\* g_current_gain(1.0f), g_request_stop(false), empty string, zeroed statics
InitCommon ==
    /\ g_request_stop = FALSE
    /\ g_last_partial_result_json = ""
    /\ lastEmittedPartial = ""
    /\ g_current_gain = GainScale
    /\ prev_input = 0
    /\ prev_output = 0
    /\ history = <<>>
    /\ accesses = {}
    /\ ret = [fn |-> "none"]
    /\ nCalls = 0
    /\ nSubmit = 0
    /\ statusGain = 0
    /\ nRead = 0

\* the class and the stages under test stand alone: no thread runs
InitRing ==
    /\ InitCommon
    /\ log = <<>>
    /\ program = "cbuff"
    /\ mainPc = "none"
    /\ consolePc = "idle"
    /\ stream = "none"
    /\ buffer = NewRing(Capacity).buffer
    /\ head = 0
    /\ tail = 0
    /\ count = 0
    /\ capacity = Capacity

\* a call g_audio_buffer.push(data, len)
Push(data) ==
    /\ Len(history) + Len(data) <= MaxRingTotal
    /\ SetRing(push(Ring, data))
    /\ history' = history \o data
    /\ ret' = [fn |-> "push", data |-> data]
    /\ UNCHANGED <<g_request_stop, cacheVars, g_current_gain,
                   filterVars, threadVars, nCalls, nSubmit, accesses>>

\* mutant: a consuming read, which releases the samples it returns
GetSmoothed_consuming(len) ==
    /\ LET r == getSmoothed(Ring, len)
       IN  /\ ret' = [fn |-> "getSmoothed", len |-> len, result |-> r.result,
                      reads |-> r.reads]
           /\ count' = count - Len(r.result)
           /\ tail' = (tail + Len(r.result)) % capacity
    /\ UNCHANGED <<buffer, head, capacity, history, g_request_stop,
                   cacheVars, g_current_gain, filterVars,
                   threadVars, nCalls, nSubmit, accesses>>

\* a call g_audio_buffer.getSmoothed(len)
GetSmoothed(len) ==
    /\ LET r == getSmoothed(Ring, len)
       IN  ret' = [fn |-> "getSmoothed", len |-> len, result |-> r.result,
                   reads |-> r.reads]
    /\ UNCHANGED <<ringVars, history, g_request_stop,
                   cacheVars, g_current_gain, filterVars,
                   threadVars, nCalls, nSubmit, accesses>>

NextRing ==
    \/ \E data \in RingPushInputs : Push(data)
    \/ \E len \in RingGetInputs : GetSmoothed(len)

SpecRing == InitRing /\ [][NextRing]_vars

-----------------------------------------------------------------------------
(* Claims about the CircularBuffer, checked under SpecRing *)

\* C3: after any sequence of push calls, of any lengths, 0 <= count <= capacity
\* and head is the total number of samples ever pushed modulo capacity.
C3_CountBoundedHeadIsNextWrite ==
    /\ count \in 0..capacity
    /\ head = Len(history) % capacity
    /\ head \in 0..(capacity - 1)

\* C3 witness: a single push longer than capacity has been made
C3_Witness ==
    /\ ret.fn = "push"
    /\ Len(ret.data) > capacity
    /\ Len(history) > Len(ret.data)

\* C4: right after a push of k <= capacity samples, getSmoothed(k) returns
\* exactly those k samples in the order pushed, also when the write wrapped.
C4_PushThenGetReturnsBlock ==
    (ret.fn = "push" /\ Len(ret.data) <= capacity)
        => getSmoothed(Ring, Len(ret.data)).result = ret.data

\* C4 witness: the push wrapped around the end of storage
C4_Witness ==
    /\ ret.fn = "push"
    /\ Len(ret.data) \in 2..capacity
    /\ head < Len(ret.data)
    /\ head > 0
    /\ getSmoothed(Ring, Len(ret.data)).result = ret.data

\* C5: once more than capacity samples have been pushed, count is capacity and
\* for every n <= capacity getSmoothed(n) returns the n most recently pushed
\* samples in chronological order.
C5_OverflowKeepsLastCapacity ==
    Len(history) > capacity =>
        /\ count = capacity
        /\ \A n \in 0..capacity :
               getSmoothed(Ring, n).result = LastN(history, n)

\* C5 witness: the total exceeds capacity by pushes that each fit
C5_Witness ==
    /\ Len(history) > capacity
    /\ ret.fn = "push"
    /\ Len(ret.data) \in 1..(capacity - 1)
    /\ getSmoothed(Ring, capacity).result = LastN(history, capacity)

\* C6: getSmoothed(n) with n > count returns the empty result and reads no
\* index of storage; whatever n, every index read is within [0, capacity).
C6_InsufficientHistoryIsEmpty ==
    ret.fn = "getSmoothed" =>
        /\ ret.reads \subseteq 0..(capacity - 1)
        /\ ret.len > count => (ret.result = <<>> /\ ret.reads = {})

\* C6 witness: a request above count but within capacity, and one above capacity
C6_Witness ==
    /\ ret.fn = "getSmoothed"
    /\ ret.len > count
    /\ ret.len <= capacity
    /\ count > 0
    /\ ret.result = <<>>

\* C7: getSmoothed leaves storage, head, tail and count unchanged for every
\* argument, and only push changes them.
C7_GetSmoothedIsReadOnly ==
    [][ /\ (ret'.fn = "getSmoothed" => UNCHANGED ringVars)
        /\ (ringVars' # ringVars => ret'.fn = "push") ]_vars

\* C7 witness: getSmoothed returned data from a non-empty buffer
C7_Witness ==
    /\ ret.fn = "getSmoothed"
    /\ ret.result # <<>>
    /\ count > 0

-----------------------------------------------------------------------------
(* SpecAGC: applyAGC driven directly *)

\* the blocks given to applyAGC: silent, smallest and largest levels, mixed
AgcBlocks ==
    { ConstBlock(a) : a \in {0, 1, 1000, 8000, SHORT_MAX, SHORT_MIN} }
        \cup { ImpulseBlock(1), ImpulseBlock(-1), SwingBlock }

\* a call applyAGC(audio_data, frame_count)
ApplyAGC(audio_data) ==
    /\ nCalls < MaxAgcCalls
    /\ LET r == applyAGC(audio_data, g_current_gain)
       IN  /\ g_current_gain' = r.gain
           /\ ret' = [fn |-> "applyAGC", input |-> audio_data,
                      output |-> r.audio_data, gainBefore |-> g_current_gain]
    /\ nCalls' = nCalls + 1
    /\ UNCHANGED <<g_request_stop, cacheVars, ringVars,
                   filterVars, history, threadVars, nSubmit, accesses>>

NextAGC == \E audio_data \in AgcBlocks : ApplyAGC(audio_data)

SpecAGC == InitRing /\ [][NextAGC]_vars

\* C8: starting from the gain 1.0, after any sequence of blocks processed by
\* applyAGC the shared gain is within [0.1, 10.0].
C8_GainWithinLimits ==
    /\ g_current_gain >= MIN_GAIN
    /\ g_current_gain <= MAX_GAIN

\* C8 witness: a block of very small level drove the gain to the upper limit
\* and a later block of the largest level has lowered it again
C8_Witness ==
    /\ ret.fn = "applyAGC"
    /\ ret.gainBefore = MAX_GAIN
    /\ ret.input = ConstBlock(SHORT_MIN)
    /\ g_current_gain < MAX_GAIN

\* C9: a block whose samples are all zero leaves the shared gain and every
\* sample of the block unchanged.
C9_SilentBlockLeavesGain ==
    (ret.fn = "applyAGC" /\ \A i \in DOMAIN ret.input : ret.input[i] = 0)
        => /\ g_current_gain = ret.gainBefore
           /\ ret.output = ret.input

\* C9 witness: a silent block processed when the gain is no longer 1.0
C9_Witness ==
    /\ ret.fn = "applyAGC"
    /\ ret.input = ConstBlock(0)
    /\ ret.gainBefore # GainScale
    /\ g_current_gain = ret.gainBefore

-----------------------------------------------------------------------------
(* SpecStages: isAudioAboveNoiseGate and applyHighPassFilter driven directly *)

\* the blocks given to the gate: silent, at the threshold, one unit beside it,
\* of mean absolute value at the threshold, and the loudest
GateBlocks ==
    { ConstBlock(a) : a \in {0, 499, 500, -500, 501, -501} }
        \cup { PairBlock(499, 501), PairBlock(-1, 0), SwingBlock }

\* the blocks given to the filter: silent, of results with a fractional part
\* on either side of zero, constant, and of the largest steps
FilterBlocks ==
    { ConstBlock(a) : a \in {0, 1, -1, 1000, SHORT_MIN} }
        \cup { PairBlock(-3, 7), SwingBlock }

\* a call isAudioAboveNoiseGate(audio_data, frame_count)
IsAudioAboveNoiseGate(audio_data) ==
    /\ nCalls < MaxStageCalls
    /\ ret' = [fn |-> "isAudioAboveNoiseGate", input |-> audio_data,
               result |-> isAudioAboveNoiseGate(audio_data)]
    /\ nCalls' = nCalls + 1
    /\ UNCHANGED <<g_request_stop, cacheVars, g_current_gain,
                   ringVars, filterVars, history, threadVars, nSubmit,
                   accesses>>

\* a call applyHighPassFilter(audio_data, frame_count, prev_input, prev_output)
\* on the statics of preprocessAudio
ApplyHighPassFilter(audio_data) ==
    /\ nCalls < MaxStageCalls
    /\ \E r \in {applyHighPassFilter(audio_data, prev_input, prev_output)} :
           /\ prev_input' = r.prev_input
           /\ prev_output' = r.prev_output
           /\ ret' = [fn |-> "applyHighPassFilter", input |-> audio_data,
                      output |-> r.audio_data, prev_input |-> prev_input,
                      prev_output |-> prev_output]
    /\ nCalls' = nCalls + 1
    /\ UNCHANGED <<g_request_stop, cacheVars, g_current_gain,
                   ringVars, history, threadVars, nSubmit, accesses>>

NextStages ==
    \/ \E audio_data \in GateBlocks : IsAudioAboveNoiseGate(audio_data)
    \/ \E audio_data \in FilterBlocks : ApplyHighPassFilter(audio_data)

SpecStages == InitRing /\ [][NextStages]_vars

\* the mean of the squares of the samples of f is greater than t * t, on the
\* quotient and remainder of the division by the number of samples
MeanSquareAbove(f, t) ==
    \/ SumSquares(f) \div Len(f) > t * t
    \/ SumSquares(f) \div Len(f) = t * t /\ SumSquares(f) % Len(f) > 0

\* C11: isAudioAboveNoiseGate returns true exactly when the RMS of the block,
\* the square root of the mean of the squared samples, is strictly greater
\* than the threshold 500; an all-zero block is reported below gate; and the
\* call changes no state of the program.
C11_GateIsStrictRmsTest ==
    /\ [](ret.fn = "isAudioAboveNoiseGate" =>
            /\ ret.result = MeanSquareAbove(ret.input, NOISE_GATE_THRESHOLD)
            /\ ((\A i \in DOMAIN ret.input : ret.input[i] = 0) => ~ret.result))
    /\ [][ ret'.fn = "isAudioAboveNoiseGate" =>
              UNCHANGED <<g_request_stop, g_last_partial_result_json,
                          g_current_gain, ringVars, filterVars, history>> ]_vars

\* C11 witness: after the filter has left a state, a block whose RMS is exactly
\* the threshold is reported below gate
C11_Witness ==
    /\ ret.fn = "isAudioAboveNoiseGate"
    /\ ret.input = ConstBlock(-500)
    /\ ~ret.result
    /\ prev_output # 0

-----------------------------------------------------------------------------
(* Claims about the high-pass filter, checked under SpecStages *)

\* a step of applyHighPassFilter
FilterStep == nCalls' = nCalls + 1 /\ ret'.fn = "applyHighPassFilter"

\* the values y[0..n] of the recurrence y[i] = alpha * (y[i-1] + x[i] - x[i-1])
\* on the block x, from the state x[0] = pin, y[0] = pout, in units of
\* 1/FilterScale
Recurrence(x, pin, pout) ==
    LET xs(i) == IF i = 0 THEN pin ELSE x[i] * FilterScale
        y[i \in 0..Len(x)] ==
            IF i = 0 THEN pout
            ELSE RoundDiv(ALPHA_NUM * (y[i - 1] + xs(i) - xs(i - 1)), ALPHA_DEN)
    IN  y

\* y limited to the range of a 16-bit sample, in units of 1/FilterScale
Limited(y) == Max(SHORT_MIN * FilterScale, Min(SHORT_MAX * FilterScale, y))

\* the filter follows the recurrence from the state the call before left,
\* keeps the last x and the last y, not limited, as the new state, and writes
\* every limited y, rounded to the nearest integer if `rounded' and with its
\* fractional part dropped otherwise
FilterFollowsRecurrence(rounded) ==
    FilterStep =>
         \E y \in {Recurrence(ret'.input, prev_input, prev_output)} :
             /\ Len(ret'.output) = Len(ret'.input)
             /\ \A i \in 1..Len(ret'.input) :
                    ret'.output[i] =
                        IF rounded THEN RoundDiv(Limited(y[i]), FilterScale)
                        ELSE TruncDiv(Limited(y[i]), FilterScale)
             /\ prev_input' = ret'.input[Len(ret'.input)] * FilterScale
             /\ prev_output' = y[Len(ret'.input)]

\* the first call of a run finds the state zero
FilterStartsFromZero == nCalls = 0 => prev_input = 0 /\ prev_output = 0

\* C20 as stated: applyHighPassFilter, from zero state, computes for each
\* sample in order y[n] = alpha * (prevOutput + x[n] - prevInput), keeps
\* x[n] and the unlimited y[n] as its state across samples and blocks, and
\* writes clamp(round(y[n]), -32768, 32767).
C20_FilterWritesRoundedRecurrence ==
    /\ []FilterStartsFromZero
    /\ [][FilterFollowsRecurrence(TRUE)]_vars

\* C20, amended: as stated, but the sample written is the limited y[n] with
\* its fractional part dropped (static_cast<short>), not rounded.
C20_FilterWritesTruncatedRecurrence ==
    /\ []FilterStartsFromZero
    /\ [][FilterFollowsRecurrence(FALSE)]_vars

\* C20 witness: a second block has been filtered from the state the first
\* left, a sample of it was limited to 32767, and the y kept as state has a
\* fractional part
C20_Witness ==
    /\ ret.fn = "applyHighPassFilter"
    /\ nCalls >= 2
    /\ ret.prev_input # 0
    /\ ret.prev_output # 0
    /\ \E i \in 1..Len(ret.output) : ret.output[i] = SHORT_MAX
    /\ prev_output % FilterScale # 0

-----------------------------------------------------------------------------
(* The program: main, the console thread and the stream's callback *)

\* the blocks the driver delivers: silence, a quiet block below the gate, a
\* constant block above it, and a full-scale swing
InputBlocks ==
    { ConstBlock(0), ConstBlock(300), ConstBlock(1000), SwingBlock }

Init ==
    /\ InitCommon
    /\ program \in {"cbuff", "basic"}
    /\ buffer = NewRing(Capacity).buffer
    /\ head = 0
    /\ tail = 0
    /\ count = 0
    /\ capacity = Capacity
    /\ mainPc = "vosk_model_new"
    /\ consolePc = "idle"
    /\ stream = "none"
    /\ log = <<>>

\* main returns 1 after the calls `releases'
Fail(releases) ==
    /\ mainPc' = "exit1"
    /\ log' = log \o releases

\* main goes on to `next' after the call `call'
Proceed(call, next) ==
    /\ mainPc' = next
    /\ log' = Append(log, call)

dataVars == <<g_request_stop, cacheVars, g_current_gain,
              ringVars, filterVars, history, accesses, ret, nCalls, nSubmit,
              nRead, program, statusGain>>

\* 1. vosk_model_new
LoadModel(ok) ==
    /\ mainPc = "vosk_model_new"
    /\ IF ok THEN Proceed("vosk_model_new", "vosk_recognizer_new")
       ELSE Fail(<<>>)
    /\ UNCHANGED <<dataVars, consolePc, stream>>

\* 2. vosk_recognizer_new
CreateRecognizer(ok) ==
    /\ mainPc = "vosk_recognizer_new"
    /\ IF ok THEN Proceed("vosk_recognizer_new", "Pa_Initialize")
       ELSE Fail(<<"vosk_model_free">>)
    /\ UNCHANGED <<dataVars, consolePc, stream>>

\* mutant: a failed Pa_Initialize is followed by Pa_Terminate
PaInitialize_terminates(ok) ==
    /\ mainPc = "Pa_Initialize"
    /\ IF ok THEN Proceed("Pa_Initialize", "Pa_GetDefaultInputDevice")
       ELSE Fail(<<"Pa_Terminate", "vosk_recognizer_free", "vosk_model_free">>)
    /\ UNCHANGED <<dataVars, consolePc, stream>>

\* 3. Pa_Initialize
PaInitialize(ok) ==
    /\ mainPc = "Pa_Initialize"
    /\ IF ok THEN Proceed("Pa_Initialize", "Pa_GetDefaultInputDevice")
       ELSE Fail(<<"vosk_recognizer_free", "vosk_model_free">>)
    /\ UNCHANGED <<dataVars, consolePc, stream>>

\* 4. Pa_GetDefaultInputDevice
GetDevice(ok) ==
    /\ mainPc = "Pa_GetDefaultInputDevice"
    /\ IF ok THEN mainPc' = "Pa_OpenStream" /\ log' = log
       ELSE Fail(<<"Pa_Terminate", "vosk_recognizer_free", "vosk_model_free">>)
    /\ UNCHANGED <<dataVars, consolePc, stream>>

\* 5. Pa_OpenStream
OpenStream(ok) ==
    /\ mainPc = "Pa_OpenStream"
    /\ IF ok
       THEN Proceed("Pa_OpenStream", "Pa_StartStream") /\ stream' = "open"
       ELSE /\ Fail(<<"Pa_Terminate", "vosk_recognizer_free", "vosk_model_free">>)
            /\ stream' = stream
    /\ UNCHANGED <<dataVars, consolePc>>

\* 6. Pa_StartStream
StartStream(ok) ==
    /\ mainPc = "Pa_StartStream"
    /\ IF ok
       THEN Proceed("Pa_StartStream", "thread") /\ stream' = "active"
       ELSE /\ Fail(<<"Pa_CloseStream", "Pa_Terminate", "vosk_recognizer_free",
                      "vosk_model_free">>)
            /\ stream' = "closed"
    /\ UNCHANGED <<dataVars, consolePc>>

\* 7. std::thread quit_checker_thread(checkForQuitCommand)
StartThread ==
    /\ mainPc = "thread"
    /\ Proceed("thread", "loop")
    /\ consolePc' = "reading"
    /\ UNCHANGED <<dataVars, stream>>

\* mutant: the status line also resets the gain
MainLoop_resetsGain(print) ==
    /\ mainPc = "loop"
    /\ IF g_request_stop
       THEN /\ mainPc' = "join"
            /\ statusGain' = statusGain
            /\ g_current_gain' = g_current_gain
       ELSE /\ mainPc' = mainPc
            /\ statusGain' = IF print /\ program = "cbuff"
                             THEN g_current_gain ELSE statusGain
            /\ g_current_gain' = IF print /\ program = "cbuff"
                                 THEN GainScale ELSE g_current_gain
    /\ UNCHANGED <<g_request_stop, cacheVars, ringVars, filterVars, history,
                   ret, nCalls, nSubmit, nRead, program, log, consolePc,
                   stream>>

\* the shared variables one iteration of main's loop accesses: the flag in
\* the loop's test and, when the status line is printed, the gain
MainLoopAccesses(print) ==
    {Acc("main", "g_request_stop", "read")}
        \cup (IF ~g_request_stop /\ print /\ program = "cbuff"
              THEN {Acc("main", "g_current_gain", "read")} ELSE {})

\* 8. one test of while (!g_request_stop) and, when it holds, one sleep; the
\* enhanced program prints the gain when 30 s have passed (`print')
MainLoop(print) ==
    /\ mainPc = "loop"
    /\ IF g_request_stop
       THEN mainPc' = "join" /\ statusGain' = statusGain
       ELSE /\ mainPc' = mainPc
            /\ statusGain' = IF print /\ program = "cbuff"
                             THEN g_current_gain ELSE statusGain
    /\ UNCHANGED <<g_request_stop, cacheVars, g_current_gain,
                   ringVars, filterVars, history, ret, nCalls, nSubmit, nRead,
                   program, log, consolePc, stream>>

\* quit_checker_thread.join(), which returns once the thread has ended
Join ==
    /\ mainPc = "join"
    /\ consolePc = "done"
    /\ Proceed("join", "Pa_StopStream")
    /\ UNCHANGED <<dataVars, consolePc, stream>>

\* mutant: a failed Pa_StopStream makes main return 1
StopStream_failStops(ok) ==
    /\ mainPc = "Pa_StopStream"
    /\ IF ok THEN Proceed("Pa_StopStream", "Pa_CloseStream")
       ELSE Fail(<<"Pa_StopStream failed">>)
    /\ stream' = IF ok THEN "stopped" ELSE stream
    /\ UNCHANGED <<dataVars, consolePc>>

\* 9. Pa_StopStream; a failure is only reported
StopStream(ok) ==
    /\ mainPc = "Pa_StopStream"
    /\ Proceed(IF ok THEN "Pa_StopStream" ELSE "Pa_StopStream failed",
               "Pa_CloseStream")
    /\ stream' = IF ok THEN "stopped" ELSE stream
    /\ UNCHANGED <<dataVars, consolePc>>

\* 9. Pa_CloseStream; a failure is only reported
CloseStream(ok) ==
    /\ mainPc = "Pa_CloseStream"
    /\ Proceed(IF ok THEN "Pa_CloseStream" ELSE "Pa_CloseStream failed",
               "Pa_Terminate")
    /\ stream' = IF ok THEN "closed" ELSE stream
    /\ UNCHANGED <<dataVars, consolePc>>

\* mutant: Pa_Terminate leaves a stream that is still open as it is
Terminate_leavesStream ==
    /\ mainPc = "Pa_Terminate"
    /\ Proceed("Pa_Terminate", "vosk_recognizer_final_result")
    /\ stream' = stream
    /\ UNCHANGED <<dataVars, consolePc>>

\* 10. Pa_Terminate, which closes a stream still open
Terminate ==
    /\ mainPc = "Pa_Terminate"
    /\ Proceed("Pa_Terminate", "vosk_recognizer_final_result")
    /\ stream' = "closed"
    /\ UNCHANGED <<dataVars, consolePc>>

\* 11. vosk_recognizer_final_result returns `text'
FinalResult(text) ==
    /\ mainPc = "vosk_recognizer_final_result"
    /\ mainPc' = "vosk_recognizer_free"
    /\ log' = log \o <<"vosk_recognizer_final_result">> \o
              (IF /\ text # NULL_STR
                  /\ Len(text) > 0
                  /\ ~Contains(text, "\"text\" : \"\"")
               THEN <<"Final (on exit): " \o text>> ELSE <<>>)
    /\ UNCHANGED <<dataVars, consolePc, stream>>

\* 12. vosk_recognizer_free
FreeRecognizer ==
    /\ mainPc = "vosk_recognizer_free"
    /\ Proceed("vosk_recognizer_free", "vosk_model_free")
    /\ UNCHANGED <<dataVars, consolePc, stream>>

\* 12. vosk_model_free and return 0
FreeModel ==
    /\ mainPc = "vosk_model_free"
    /\ Proceed("vosk_model_free", "exit0")
    /\ UNCHANGED <<dataVars, consolePc, stream>>

\* the characters the console delivers
Chars == {"q", "Q", "x", "\n"}

\* the shared variables one iteration of the console's loop accesses: the
\* flag is set for q and Q, and tested for a newline
ReadCharAccesses(c) ==
    IF c \in {"q", "Q"} THEN {Acc("console", "g_request_stop", "write")}
    ELSE IF c = "\n" THEN {Acc("console", "g_request_stop", "read")}
    ELSE {}

\* mutant: after q or Q the thread goes on reading until a newline
ReadChar_waitsForNewline(c) ==
    /\ consolePc = "reading"
    /\ IF c \in {"q", "Q"}
       THEN /\ g_request_stop' = TRUE
            /\ consolePc' = consolePc
            /\ nRead' = Min(nRead + 1, MaxChars + 1)
       ELSE /\ nRead < MaxChars
            /\ nRead' = nRead + 1
            /\ g_request_stop' = g_request_stop
            /\ consolePc' = IF c = "\n" /\ g_request_stop
                            THEN "done" ELSE consolePc
    /\ UNCHANGED <<cacheVars, g_current_gain, ringVars,
                   filterVars, history, ret, nCalls, nSubmit, program, mainPc,
                   stream, log, statusGain>>

\* one iteration of while (std::cin.get(c)) that reads the character c
ReadChar(c) ==
    /\ consolePc = "reading"
    /\ IF c \in {"q", "Q"}
       THEN /\ g_request_stop' = TRUE
            /\ consolePc' = "done"
            /\ nRead' = nRead + 1
       ELSE /\ nRead < MaxChars
            /\ nRead' = nRead + 1
            /\ g_request_stop' = g_request_stop
            /\ consolePc' = IF c = "\n" /\ g_request_stop
                            THEN "done" ELSE consolePc
    /\ UNCHANGED <<cacheVars, g_current_gain, ringVars,
                   filterVars, history, ret, nCalls, nSubmit, program, mainPc,
                   stream, log, statusGain>>

\* mutant: the end of the input is taken as a request to stop
ReadEof_setsFlag ==
    /\ consolePc = "reading"
    /\ consolePc' = "done"
    /\ g_request_stop' = TRUE
    /\ UNCHANGED <<cacheVars, g_current_gain,
                   ringVars, filterVars, history, ret, nCalls, nSubmit, nRead,
                   program, mainPc, stream, log, statusGain, accesses>>

\* std::cin.get(c) fails: end of input or a read error
ReadEof ==
    /\ consolePc = "reading"
    /\ consolePc' = "done"
    /\ UNCHANGED <<g_request_stop, cacheVars, g_current_gain,
                   ringVars, filterVars, history, ret, nCalls, nSubmit, nRead,
                   program, mainPc, stream, log, statusGain, accesses>>

\* the driver delivers one block, or none (NULL)
Deliver ==
    /\ nCalls < MaxCalls
    /\ \E inputBuffer \in InputBlocks \cup {NULL_BUFFER} :
           \E answer \in RecognizerAnswers : paCallback(inputBuffer, answer)
    /\ UNCHANGED accesses

Next ==
    \/ \E ok \in BOOLEAN : LoadModel(ok)
    \/ \E ok \in BOOLEAN : CreateRecognizer(ok)
    \/ \E ok \in BOOLEAN : PaInitialize(ok)
    \/ \E ok \in BOOLEAN : GetDevice(ok)
    \/ \E ok \in BOOLEAN : OpenStream(ok)
    \/ \E ok \in BOOLEAN : StartStream(ok)
    \/ StartThread
    \/ \E print \in BOOLEAN : MainLoop(print) /\ UNCHANGED accesses
    \/ Join
    \/ \E ok \in BOOLEAN : StopStream(ok)
    \/ \E ok \in BOOLEAN : CloseStream(ok)
    \/ Terminate
    \/ \E text \in FinalTexts : FinalResult(text)
    \/ FreeRecognizer
    \/ FreeModel
    \/ \E c \in Chars : ReadChar(c) /\ UNCHANGED accesses
    \/ ReadEof
    \/ Deliver

Spec == Init /\ [][Next]_vars

-----------------------------------------------------------------------------
(* Claims about paCallback, checked under Spec *)

\* the state the stages of the pipeline keep between blocks
pipelineVars == <<filterVars, g_current_gain, ringVars,
                  g_last_partial_result_json>>

\* a step that is one invocation of paCallback
CallbackStep == nCalls' = nCalls + 1 /\ ret'.fn = "paCallback"

\* C1: once the stop flag is set it is never reset, and every invocation of
\* paCallback that begins with the flag set returns paComplete, submits nothing
\* to the recognizer and leaves the filter state, the gain, the ring buffer
\* and the last-partial cache unchanged.
C1_StopFlagStopsCallback ==
    [][ /\ (g_request_stop => g_request_stop')
        /\ ((g_request_stop /\ CallbackStep) =>
               /\ ret'.directive = "paComplete"
               /\ ~ret'.didSubmit
               /\ nSubmit' = nSubmit
               /\ UNCHANGED pipelineVars) ]_vars

\* C1 witness: after blocks were processed and submitted, a block above the
\* gate is delivered with the flag set and the callback returns paComplete
C1_Witness ==
    /\ g_request_stop
    /\ ret.fn = "paCallback"
    /\ ret.directive = "paComplete"
    /\ ret.input = ConstBlock(1000)
    /\ nSubmit > 0
    /\ nCalls > nSubmit

\* C2: in the enhanced program every block the noise gate reports below gate,
\* and so every zero-energy block, is dropped: no submission to the recognizer,
\* the filter state, the gain, the ring buffer and the last-partial cache are
\* left unchanged, and paContinue is returned.
C2_BelowGateIsDropped ==
    [][ (/\ CallbackStep
         /\ program = "cbuff"
         /\ ~g_request_stop
         /\ (ret'.belowGate \/ ret'.input = ConstBlock(0))) =>
            /\ ret'.belowGate
            /\ ret'.directive = "paContinue"
            /\ ~ret'.didSubmit
            /\ nSubmit' = nSubmit
            /\ UNCHANGED pipelineVars ]_vars

\* C2 witness: a quiet block is dropped after an earlier block was processed,
\* so that there is filter, gain and ring state to leave unchanged
C2_Witness ==
    /\ program = "cbuff"
    /\ ret.fn = "paCallback"
    /\ ret.belowGate
    /\ ret.input = ConstBlock(300)
    /\ ret.directive = "paContinue"
    /\ nSubmit > 0
    /\ count > 0
    /\ g_current_gain # GainScale
    /\ prev_output # 0

-----------------------------------------------------------------------------
(* Claims about the recognizer's answers, checked under Spec *)

\* the string s begins with pre
StartsWith(s, pre) == Len(s) >= Len(pre) /\ SubSeq(s, 1, Len(pre)) = pre

\* a step that is one invocation of paCallback which submits a block
SubmitStep == CallbackStep /\ ret'.didSubmit

\* C12 as stated: a negative status of the recognizer for a submitted block
\* makes the callback log the error, print no partial and no final line, leave
\* the last-partial cache unchanged and return paContinue, the stream staying
\* active for the next block; status 0 prints at most a partial line and a
\* positive status at most a final line.
C12_ErrorStatusIsLoggedAndSkipped ==
    [][ SubmitStep =>
          /\ (ret'.status < 0 =>
                 /\ ret'.logged # ""
                 /\ ret'.emitted = ""
                 /\ g_last_partial_result_json' = g_last_partial_result_json
                 /\ ret'.directive = "paContinue"
                 /\ stream' = "active")
          /\ (ret'.status = 0 =>
                 ret'.emitted = "" \/ StartsWith(ret'.emitted, "Partial: "))
          /\ (ret'.status > 0 =>
                 ret'.emitted = "" \/ StartsWith(ret'.emitted, "Final:   ")) ]_vars

\* C12 as amended: a negative status of the recognizer for a submitted block
\* enters neither result branch: the callback writes nothing, neither an error
\* nor a partial nor a final line, leaves the last-partial cache unchanged and
\* returns paContinue, the stream staying active for the next block; status 0
\* prints at most a partial line and a positive status at most a final line.
C12_ErrorStatusIsSkippedSilently ==
    [][ SubmitStep =>
          /\ (ret'.status < 0 =>
                 /\ ret'.logged = ""
                 /\ ret'.emitted = ""
                 /\ UNCHANGED cacheVars
                 /\ ret'.directive = "paContinue"
                 /\ stream' = "active")
          /\ (ret'.status = 0 =>
                 ret'.emitted = "" \/ StartsWith(ret'.emitted, "Partial: "))
          /\ (ret'.status > 0 =>
                 ret'.emitted = "" \/ StartsWith(ret'.emitted, "Final:   ")) ]_vars

\* C12 witness: the recognizer fails on a block submitted after a partial was
\* printed, and the cache still holds that partial
C12_Witness ==
    /\ ret.fn = "paCallback"
    /\ ret.didSubmit
    /\ ret.status < 0
    /\ ret.cacheBefore = P_HI
    /\ g_last_partial_result_json = P_HI
    /\ ret.directive = "paContinue"
    /\ stream = "active"

\* a step that is one invocation of paCallback which prints a "Partial: " line
PartialStep == SubmitStep /\ StartsWith(ret'.emitted, "Partial: ")

\* what every printed partial satisfies in both programs: it is the text the
\* recognizer returned with status 0, which is not NULL, not the empty string,
\* has a non-empty partial field and differs from the last-partial cache and
\* from the last partial printed since the last final result; and the cache
\* becomes that text
PartialIsNewAndCached ==
    /\ ret'.status = 0
    /\ ret'.emitted = "Partial: " \o ret'.text
    /\ ret'.text # NULL_STR
    /\ Len(ret'.text) > 0
    /\ ~Contains(ret'.text, "\"partial\" : \"\"")
    /\ ret'.text # g_last_partial_result_json
    /\ ret'.text # lastEmittedPartial
    /\ g_last_partial_result_json' = ret'.text

FinalStep == SubmitStep /\ ret'.status > 0

\* the text field of the final result s is empty
EmptyTextField(s) == Contains(s, "\"text\" : \"\"")

\* C14 as stated: whenever the recognizer reports a final result the
\* last-partial cache is empty when the callback returns, whether or not a
\* "Final:" line was printed; a final whose text field is empty is suppressed
\* and still clears the cache.
C14_FinalClearsCacheEmptySuppressed ==
    [][ FinalStep =>
          /\ g_last_partial_result_json' = ""
          /\ (EmptyTextField(ret'.text) => ret'.emitted = "") ]_vars

\* C14 as amended: whenever the recognizer reports a final result the
\* last-partial cache is empty when the callback returns, whether or not a
\* "Final:" line was printed; the enhanced program suppresses a final whose
\* text field is empty, the basic program prints every final that is a
\* non-empty string, and both clear the cache either way.
C14_FinalClearsCache ==
    [][ FinalStep =>
          /\ g_last_partial_result_json' = ""
          /\ lastEmittedPartial' = ""
          /\ ret'.emitted \in {"", "Final:   " \o ret'.text}
          /\ (ret'.text \in {NULL_STR, ""} => ret'.emitted = "")
          /\ ((program = "cbuff" /\ EmptyTextField(ret'.text))
                 => ret'.emitted = "")
          /\ ((program = "basic" /\ ret'.text \notin {NULL_STR, ""})
                 => ret'.emitted = "Final:   " \o ret'.text) ]_vars

\* C14 witness: in the enhanced program a final with an empty text field is
\* suppressed after a partial was printed, and the cache has been cleared
C14_Witness ==
    /\ program = "cbuff"
    /\ ret.fn = "paCallback"
    /\ ret.status > 0
    /\ ret.text = F_EMPTY
    /\ ret.emitted = ""
    /\ ret.cacheBefore = P_HI
    /\ g_last_partial_result_json = ""

-----------------------------------------------------------------------------
(* Claims about main's setup and shutdown, checked under Spec *)

\* the calls that acquire a resource, and the call that releases each
Acquisitions ==
    {"vosk_model_new", "vosk_recognizer_new", "Pa_Initialize", "Pa_OpenStream"}

ReleaseOf(call) ==
    CASE call = "vosk_model_new"      -> "vosk_model_free"
      [] call = "vosk_recognizer_new" -> "vosk_recognizer_free"
      [] call = "Pa_Initialize"       -> "Pa_Terminate"
      [] call = "Pa_OpenStream"       -> "Pa_CloseStream"

Releases == { ReleaseOf(call) : call \in Acquisitions }

IsAcquisition(call) == call \in Acquisitions

IsRelease(call) == call \in Releases

\* the sequence s in reverse order
Reverse(s) == [i \in 1..Len(s) |-> s[Len(s) + 1 - i]]

\* C15: when main exits after a setup failure, its calls are the acquisitions
\* that succeeded followed by exactly their releases, each once and in reverse
\* order of acquisition, nothing else is released, the console thread was not
\* started and no block was delivered to the callback.
C15_SetupFailureReleasesInReverse ==
    mainPc = "exit1" =>
        LET acquired == SelectSeq(log, IsAcquisition)
            released == SelectSeq(log, IsRelease)
        IN  /\ log = acquired \o released
            /\ Len(released) = Len(acquired)
            /\ released = [i \in 1..Len(acquired) |->
                              ReleaseOf(Reverse(acquired)[i])]
            /\ \A i, j \in 1..Len(log) : log[i] = log[j] => i = j
            /\ consolePc = "idle"
            /\ stream \in {"none", "closed"}
            /\ nCalls = 0
            /\ nSubmit = 0
            /\ ret.fn = "none"

\* C15 witness: Pa_StartStream failed, with all four resources acquired
C15_Witness ==
    /\ mainPc = "exit1"
    /\ SelectSeq(log, IsAcquisition) =
           <<"vosk_model_new", "vosk_recognizer_new", "Pa_Initialize",
             "Pa_OpenStream">>
    /\ log[Len(log)] = "vosk_model_free"
    /\ Len(log) = 8

\* the steps of main's shutdown, in order
ShutdownPcs ==
    <<"Pa_StopStream", "Pa_CloseStream", "Pa_Terminate",
      "vosk_recognizer_final_result", "vosk_recognizer_free",
      "vosk_model_free", "exit0">>

\* the call of the log entry e: a reported failure is the call that failed
CallOf(e) ==
    CASE e = "Pa_StopStream failed"  -> "Pa_StopStream"
      [] e = "Pa_CloseStream failed" -> "Pa_CloseStream"
      [] OTHER -> e

\* the entry e of the log is a call of the shutdown
IsShutdownCall(e) ==
    \E i \in 1..(Len(ShutdownPcs) - 1) : CallOf(e) = ShutdownPcs[i]

\* C16: a failure of Pa_StopStream or Pa_CloseStream is only reported: every
\* step of the shutdown is followed by the next one whatever it returned, and
\* when main exits it has called stream stop, stream close, audio terminate,
\* the trailing final result, recognizer free and model free, each once and in
\* that order, and exits with success.
C16_ShutdownFailuresDoNotStopTeardown ==
    /\ [][ \A i \in 1..(Len(ShutdownPcs) - 1) :
              (mainPc = ShutdownPcs[i] /\ mainPc' # mainPc)
                  => mainPc' = ShutdownPcs[i + 1] ]_vars
    /\ [](mainPc = "exit0" =>
            LET calls == SelectSeq(log, IsShutdownCall)
            IN  /\ [i \in 1..Len(calls) |-> CallOf(calls[i])]
                     = SubSeq(ShutdownPcs, 1, Len(ShutdownPcs) - 1)
                /\ stream = "closed")

\* C16 witness: main has exited with success although both Pa_StopStream and
\* Pa_CloseStream failed
C16_Witness ==
    /\ mainPc = "exit0"
    /\ \E i \in 1..Len(log) : log[i] = "Pa_StopStream failed"
    /\ \E i \in 1..Len(log) : log[i] = "Pa_CloseStream failed"
    /\ log[Len(log)] = "vosk_model_free"

-----------------------------------------------------------------------------
(* Claims about the recognizer at shutdown, checked under SpecFair *)

IsFinalFetch(e) == e = "vosk_recognizer_final_result"

IsRecognizerFree(e) == e = "vosk_recognizer_free"

\* the entry e is in the sequence s
InSeq(e, s) == \E i \in 1..Len(s) : s[i] = e

\* a step in which main calls the recognizer: the trailing final result or
\* vosk_recognizer_free, at shutdown or on a setup failure
MainRecognizerStep ==
    \E i \in (Len(log) + 1)..Len(log') :
        IsFinalFetch(log'[i]) \/ IsRecognizerFree(log'[i])

\* C22: the trailing final result is fetched at most once, and exactly once
\* when main returns 0; when it is fetched Pa_StopStream and Pa_CloseStream
\* have been called, the stream is closed and the recognizer is not freed;
\* the callback never runs once the recognizer is freed or the trailing
\* result fetched; and main calls the recognizer only when the stream is
\* not active, so that no invocation of the callback can run.
C22_TrailingFinalOnceAfterStreamClosed ==
    /\ [](Len(SelectSeq(log, IsFinalFetch)) <= 1)
    /\ [](mainPc = "exit0" => Len(SelectSeq(log, IsFinalFetch)) = 1)
    /\ [](Len(SelectSeq(log, IsRecognizerFree)) <= 1)
    /\ [][ (mainPc = "vosk_recognizer_final_result" /\ mainPc' # mainPc) =>
              /\ stream = "closed"
              /\ \E i, j \in 1..Len(log) :
                     /\ i < j
                     /\ CallOf(log[i]) = "Pa_StopStream"
                     /\ CallOf(log[j]) = "Pa_CloseStream"
              /\ ~InSeq("vosk_recognizer_free", log)
              /\ InSeq("vosk_recognizer_final_result", log')
              /\ mainPc' = "vosk_recognizer_free" ]_vars
    /\ [][ CallbackStep =>
              /\ ~InSeq("vosk_recognizer_free", log)
              /\ ~InSeq("vosk_recognizer_final_result", log) ]_vars
    /\ [][ MainRecognizerStep => stream # "active" /\ stream' # "active" ]_vars

\* C22 witness: main has returned 0 with the trailing final result fetched
\* once although Pa_StopStream and Pa_CloseStream both failed, after a block
\* was submitted by the callback
C22_Witness ==
    /\ mainPc = "exit0"
    /\ Len(SelectSeq(log, IsFinalFetch)) = 1
    /\ InSeq("Pa_StopStream failed", log)
    /\ InSeq("Pa_CloseStream failed", log)
    /\ nSubmit >= 1
    /\ stream = "closed"

-----------------------------------------------------------------------------
(* Claims about the order of the stages, checked under Spec *)

\* the calls the enhanced program makes on a block it submits, in order
PipelineStages ==
    <<"isAudioAboveNoiseGate", "applyHighPassFilter", "applyAGC", "push",
      "getSmoothed", "vosk_recognizer_accept_waveform_s">>

\* C18: in the enhanced program every block that reaches the recognizer has
\* passed the noise gate, the high-pass filter, the AGC, a push and a
\* getSmoothed, in this order and each once: the gate passed the block as
\* delivered, the filter ran on it from the state left by the block before,
\* the AGC ran on the filter's result with the gain left by the block before,
\* and its result was pushed; a block that is not submitted has passed the
\* gate at most; and the driver's buffer is as it was delivered.
C18_SubmittedBlockPassedEveryStageInOrder ==
    [][ (CallbackStep /\ program = "cbuff") =>
          /\ ret'.inputAfter = ret'.input
          /\ (~ret'.didSubmit =>
                 /\ ret'.stages \in {<<>>, <<"isAudioAboveNoiseGate">>}
                 /\ UNCHANGED <<filterVars, g_current_gain, ringVars, history>>)
          /\ (ret'.didSubmit =>
                 /\ ret'.stages = PipelineStages
                 /\ isAudioAboveNoiseGate(ret'.input)
                 /\ Len(ret'.submitted) = Len(ret'.input)
                 /\ \E f \in {applyHighPassFilter(ret'.input, prev_input,
                                                   prev_output)} :
                       /\ prev_input' = f.prev_input
                       /\ prev_output' = f.prev_output
                       /\ \E a \in {applyAGC(f.audio_data, g_current_gain)} :
                             /\ g_current_gain' = a.gain
                             /\ history' = history \o a.audio_data) ]_vars

\* C18 witness: a second block has been submitted, changed by the filter from
\* the state the first one left and by a gain other than 1.0
C18_Witness ==
    /\ program = "cbuff"
    /\ ret.fn = "paCallback"
    /\ ret.didSubmit
    /\ ret.stages = PipelineStages
    /\ nSubmit >= 2
    /\ ret.input = ConstBlock(1000)
    /\ ret.submitted # ret.input
    /\ ret.inputAfter = ret.input

-----------------------------------------------------------------------------
(* SpecBlocks: the program with blocks of every length up to beyond the
   capacity of the ring buffer *)

\* a block of n samples above the gate, no two of them equal
RampBlock(n) == [i \in 1..n |-> 1000 * i]

\* the blocks the driver delivers: framesPerBuffer from 1 to more than the
\* ring buffer holds
LengthBlocks == { RampBlock(n) : n \in 1..(Capacity + MaxOverPush) }

\* the recognizer's answer: a partial
BlockAnswers == { [status |-> 0, text |-> P_HI] }

\* the driver delivers one block of some length
DeliverBlock ==
    /\ nCalls < MaxCalls
    /\ \E inputBuffer \in LengthBlocks :
           \E answer \in BlockAnswers : paCallback(inputBuffer, answer)
    /\ UNCHANGED accesses

NextBlocks ==
    \/ \E ok \in BOOLEAN : LoadModel(ok)
    \/ \E ok \in BOOLEAN : CreateRecognizer(ok)
    \/ \E ok \in BOOLEAN : PaInitialize(ok)
    \/ \E ok \in BOOLEAN : GetDevice(ok)
    \/ \E ok \in BOOLEAN : OpenStream(ok)
    \/ \E ok \in BOOLEAN : StartStream(ok)
    \/ StartThread
    \/ \E print \in BOOLEAN : MainLoop(print) /\ UNCHANGED accesses
    \/ Join
    \/ \E ok \in BOOLEAN : StopStream(ok)
    \/ \E ok \in BOOLEAN : CloseStream(ok)
    \/ Terminate
    \/ \E text \in FinalTexts : FinalResult(text)
    \/ FreeRecognizer
    \/ FreeModel
    \/ \E c \in Chars : ReadChar(c) /\ UNCHANGED accesses
    \/ ReadEof
    \/ DeliverBlock

SpecBlocks == Init /\ [][NextBlocks]_vars

\* C19: in the enhanced program the block submitted to the recognizer is,
\* sample for sample, the filtered and gain-adjusted block just pushed: when
\* the block is no longer than the ring buffer's capacity getSmoothed returns
\* exactly that block, otherwise it returns nothing and the processed block
\* is submitted in its place.
C19_SubmittedBlockIsProcessedBlock ==
    [][ (SubmitStep /\ program = "cbuff") =>
          \E p \in {preprocessAudio(ret'.input, prev_input, prev_output,
                                    g_current_gain).audio_data} :
              \E sm \in {getSmoothed(Ring', Len(p)).result} :
                  /\ ret'.submitted = p
                  /\ Len(p) <= capacity => sm = p
                  /\ Len(p) > capacity => sm = <<>> ]_vars

\* C19 witness: a block longer than the capacity has been submitted after
\* others, and the recognizer got the processed block, not the delivered one
C19_Witness ==
    /\ program = "cbuff"
    /\ ret.fn = "paCallback"
    /\ ret.didSubmit
    /\ Len(ret.input) > capacity
    /\ nSubmit >= 2
    /\ count = capacity
    /\ ret.submitted # ret.input
    /\ Len(ret.submitted) = Len(ret.input)

-----------------------------------------------------------------------------
(* SpecThreads: the program with the history of accesses recorded *)

\* the blocks the driver delivers: one below the gate, one above it
ThreadBlocks == {ConstBlock(300), ConstBlock(1000)}

\* the recognizer's answers: an error, an empty partial, a partial, a final
ThreadAnswers ==
    { [status |-> -1, text |-> NULL_STR], [status |-> 0, text |-> P_EMPTY],
      [status |-> 0, text |-> P_HI], [status |-> 1, text |-> F_HI] }

\* the driver delivers one block, or none (NULL)
DeliverRecorded ==
    /\ nCalls < MaxCalls
    /\ \E inputBuffer \in ThreadBlocks \cup {NULL_BUFFER} :
           \E answer \in ThreadAnswers :
               /\ paCallback(inputBuffer, answer)
               /\ accesses' = accesses
                      \cup callbackResult(inputBuffer, answer).accesses

NextThreads ==
    \/ \E ok \in BOOLEAN : LoadModel(ok)
    \/ \E ok \in BOOLEAN : CreateRecognizer(ok)
    \/ \E ok \in BOOLEAN : PaInitialize(ok)
    \/ \E ok \in BOOLEAN : GetDevice(ok)
    \/ \E ok \in BOOLEAN : OpenStream(ok)
    \/ \E ok \in BOOLEAN : StartStream(ok)
    \/ StartThread
    \/ \E print \in BOOLEAN :
           MainLoop(print) /\ accesses' = accesses \cup MainLoopAccesses(print)
    \/ Join
    \/ \E ok \in BOOLEAN : StopStream(ok)
    \/ \E ok \in BOOLEAN : CloseStream(ok)
    \/ Terminate
    \/ \E text \in FinalTexts : FinalResult(text)
    \/ FreeRecognizer
    \/ FreeModel
    \/ \E c \in Chars :
           ReadChar(c) /\ accesses' = accesses \cup ReadCharAccesses(c)
    \/ ReadEof
    \/ DeliverRecorded

SpecThreads == Init /\ [][NextThreads]_vars

\* the shared variables that are not atomic, and those that are
NonAtomicShared ==
    {"g_audio_buffer", "prev_input", "prev_output",
     "g_last_partial_result_json"}

AtomicShared == {"g_request_stop", "g_current_gain"}

\* a step of the main thread, and a step of the console thread
MainStep == mainPc' # mainPc \/ statusGain' # statusGain

ConsoleStep == consolePc = "reading" /\ (consolePc' # consolePc \/ nRead' # nRead)

\* C17: the ring buffer, the filter state and the last-partial cache are
\* accessed only by the callback's thread; the gain is written only by the
\* callback's thread and only read by main; the stop flag is written only by
\* the console thread; so no two threads access the same shared variable that
\* is not atomic, in any interleaving.
C17_NonAtomicStateIsCallbackOnly ==
    /\ [](\A a \in accesses :
            /\ a.var \in NonAtomicShared \cup AtomicShared
            /\ (a.var \in NonAtomicShared => a.thread = "audio")
            /\ (a.var = "g_current_gain" /\ a.mode = "write"
                    => a.thread = "audio")
            /\ (a.var = "g_current_gain" /\ a.thread # "audio"
                    => a.thread = "main" /\ a.mode = "read")
            /\ (a.var = "g_request_stop" /\ a.mode = "write"
                    => a.thread = "console"))
    /\ [](\A a, b \in accesses :
            (a.var = b.var /\ a.thread # b.thread /\ "write" \in {a.mode, b.mode})
                => a.var \in AtomicShared)
    /\ [][ /\ (ringVars' # ringVars =>
                  CallbackStep /\ Acc("audio", "g_audio_buffer", "write") \in accesses')
           /\ (filterVars' # filterVars =>
                  /\ CallbackStep
                  /\ Acc("audio", "prev_input", "write") \in accesses'
                  /\ Acc("audio", "prev_output", "write") \in accesses')
           /\ (g_last_partial_result_json' # g_last_partial_result_json =>
                  /\ CallbackStep
                  /\ Acc("audio", "g_last_partial_result_json", "write")
                         \in accesses')
           /\ (g_current_gain' # g_current_gain =>
                  CallbackStep /\ Acc("audio", "g_current_gain", "write") \in accesses')
           /\ (g_request_stop' # g_request_stop =>
                  /\ ConsoleStep
                  /\ Acc("console", "g_request_stop", "write") \in accesses')
           /\ (statusGain' # statusGain =>
                  Acc("main", "g_current_gain", "read") \in accesses') ]_vars

\* C17 witness: all three threads have run: the callback has written the ring,
\* the filter state, the gain and the cache, main has read the gain the
\* callback stored, and the console thread has set the flag the others read
C17_Witness ==
    /\ { Acc("audio", v, "write") :
           v \in NonAtomicShared \cup {"g_current_gain"} } \subseteq accesses
    /\ Acc("main", "g_current_gain", "read") \in accesses
    /\ Acc("console", "g_request_stop", "write") \in accesses
    /\ Acc("audio", "g_request_stop", "read") \in accesses
    /\ Acc("main", "g_request_stop", "read") \in accesses
    /\ statusGain # 0
    /\ statusGain # GainScale
    /\ g_request_stop
    /\ mainPc = "join"

-----------------------------------------------------------------------------
(* SpecFair: the program with a main thread that is always scheduled again *)

\* the blocks the driver delivers: one above the gate
FairBlocks == {ConstBlock(1000)}

\* the recognizer's answers: a partial, a final
FairAnswers ==
    { [status |-> 0, text |-> P_HI], [status |-> 1, text |-> F_HI] }

\* the driver delivers one block, or none (NULL)
DeliverFair ==
    /\ nCalls < MaxCalls
    /\ \E inputBuffer \in FairBlocks \cup {NULL_BUFFER} :
           \E answer \in FairAnswers : paCallback(inputBuffer, answer)
    /\ UNCHANGED accesses

\* a step of the main thread from its polling loop on: the loop's sleep
\* returns, join returns once the console thread has ended, and the calls
\* of the shutdown return
MainProgress ==
    \/ \E print \in BOOLEAN : MainLoop(print) /\ UNCHANGED accesses
    \/ Join
    \/ \E ok \in BOOLEAN : StopStream(ok)
    \/ \E ok \in BOOLEAN : CloseStream(ok)
    \/ Terminate
    \/ \E text \in FinalTexts : FinalResult(text)
    \/ FreeRecognizer
    \/ FreeModel

NextFair ==
    \/ \E ok \in BOOLEAN : LoadModel(ok)
    \/ \E ok \in BOOLEAN : CreateRecognizer(ok)
    \/ \E ok \in BOOLEAN : PaInitialize(ok)
    \/ \E ok \in BOOLEAN : GetDevice(ok)
    \/ \E ok \in BOOLEAN : OpenStream(ok)
    \/ \E ok \in BOOLEAN : StartStream(ok)
    \/ StartThread
    \/ \E print \in BOOLEAN : MainLoop(print) /\ UNCHANGED accesses
    \/ Join
    \/ \E ok \in BOOLEAN : StopStream(ok)
    \/ \E ok \in BOOLEAN : CloseStream(ok)
    \/ Terminate
    \/ \E text \in FinalTexts : FinalResult(text)
    \/ FreeRecognizer
    \/ FreeModel
    \/ \E c \in Chars : ReadChar(c) /\ UNCHANGED accesses
    \/ ReadEof
    \/ DeliverFair

\* the main thread is scheduled fairly; the console's input and the driver's
\* blocks come when they come
SpecFair == Init /\ [][NextFair]_vars /\ WF_vars(MainProgress)

\* main has returned 0 after the whole shutdown: the join, then stream stop,
\* stream close, audio terminate, the trailing final result, recognizer free
\* and model free, each once and in that order
ShutdownComplete ==
    /\ mainPc = "exit0"
    /\ consolePc = "done"
    /\ \E k \in 1..Len(log) :
          /\ log[k] = "join"
          /\ \E rest \in {SelectSeq(SubSeq(log, k + 1, Len(log)),
                                    IsShutdownCall)} :
                [i \in 1..Len(rest) |-> CallOf(rest[i])]
                    = SubSeq(ShutdownPcs, 1, Len(ShutdownPcs) - 1)

\* C21: once the console thread has read q or Q (the flag is set), the main
\* thread, scheduled fairly, leaves its loop, joins the console thread, which
\* has ended, and completes the shutdown: stream stop, stream close, audio
\* terminate, trailing final result, recognizer free, model free, return 0.
C21_QuitLeadsToCompleteShutdown ==
    /\ g_request_stop ~> ShutdownComplete
    /\ [](g_request_stop => consolePc = "done")

\* C21 witness: Q was read after another character and main has returned 0
\* after the whole shutdown, with blocks delivered meanwhile
C21_Witness ==
    /\ g_request_stop
    /\ ShutdownComplete
    /\ nRead >= 2
    /\ nCalls >= 1

-----------------------------------------------------------------------------
(* Claims about the end of the console's input, checked under SpecFair *)

\* the console thread has ended and the flag is not set
ConsoleEndedSilently == consolePc = "done" /\ ~g_request_stop

\* C23: the flag changes only from false to true and only in a step of the
\* console thread that has read a character, q or Q; a failed read, which
\* gets no character, ends the console thread
\* with the flag as it was; and once the thread has ended with the flag not
\* set, the flag stays false, main stays in its polling loop and no call of
\* the shutdown is ever made.
C23_OnlyQuitSetsFlagEndOfInputHangs ==
    /\ [][ g_request_stop' # g_request_stop =>
              /\ ~g_request_stop
              /\ g_request_stop'
              /\ nRead' = nRead + 1
              /\ \E c \in {"q", "Q"} : ReadChar(c) ]_vars
    /\ [][ (consolePc = "reading" /\ consolePc' = "done" /\ nRead' = nRead) =>
              g_request_stop' = g_request_stop ]_vars
    /\ [](ConsoleEndedSilently =>
              /\ mainPc = "loop"
              /\ SelectSeq(log, IsShutdownCall) = <<>>
              /\ ~InSeq("join", log))
    /\ [][ ConsoleEndedSilently => ConsoleEndedSilently' ]_vars

\* C23 witness: the input ended after a character other than q and Q; the
\* console thread has ended, the flag is not set, main is in its loop and
\* the callback still gets blocks
C23_Witness ==
    /\ ConsoleEndedSilently
    /\ nRead >= 1
    /\ mainPc = "loop"
    /\ stream = "active"
    /\ nCalls >= 2
    /\ ret.fn = "paCallback"
    /\ ret.directive = "paContinue"

-----------------------------------------------------------------------------
(* SpecConst: the enhanced program's callback fed constant blocks *)

\* the constant block: every sample is 1000
ConstantBlock == ConstBlock(1000)

\* the enhanced program once main has started the stream and the console
\* thread and waits in its loop
InitConst ==
    /\ InitCommon
    /\ program = "cbuff"
    /\ buffer = NewRing(Capacity).buffer
    /\ head = 0
    /\ tail = 0
    /\ count = 0
    /\ capacity = Capacity
    /\ mainPc = "loop"
    /\ consolePc = "reading"
    /\ stream = "active"
    /\ log = <<"vosk_model_new", "vosk_recognizer_new", "Pa_Initialize",
               "Pa_OpenStream", "Pa_StartStream", "thread">>

\* the driver delivers one more constant block
DeliverConst ==
    /\ nCalls < MaxConstCalls
    /\ \E answer \in RecognizerAnswers :
           paCallback(ConstantBlock, answer)
    /\ UNCHANGED accesses

NextConst == DeliverConst

SpecConst == InitConst /\ [][NextConst]_vars

\* the gain 8.0 = AGC_TARGET_LEVEL / 1000 that the level of the unfiltered
\* constant block asks for
CONST_GAIN == 8 * GainScale

\* C10 as stated: fed constant blocks of amplitude 1000, the gain moves
\* monotonically from 1.0 toward 8.0, by at most the adjustment rate times the
\* remaining distance per block, and has converged to 8.0 (to within one
\* hundredth) after a bounded number of blocks.
C10_GainApproachesEight ==
    /\ [][ CallbackStep =>
              /\ g_current_gain <= g_current_gain'
              /\ g_current_gain' <= CONST_GAIN
              /\ g_current_gain' - g_current_gain
                   <= (CONST_GAIN - g_current_gain) \div AGC_RATE_DIV + 1 ]_vars
    /\ [](nCalls >= MaxConstCalls =>
              Abs(CONST_GAIN - g_current_gain) <= GainScale \div 100)

\* C10 as amended: fed constant blocks of amplitude 1000, whose level the
\* high-pass filter lowers block after block, the gain never decreases from
\* 1.0, stays within the limits, is above 8.0 and equal to the upper limit 10.0
\* after a bounded number of blocks, and stays at 10.0 from then on.
C10_GainRisesToUpperLimit ==
    /\ [][ CallbackStep =>
              /\ g_current_gain <= g_current_gain'
              /\ g_current_gain' <= MAX_GAIN
              /\ (g_current_gain = MAX_GAIN => g_current_gain' = MAX_GAIN) ]_vars
    /\ [](nCalls >= ConstSettleCalls =>
              /\ g_current_gain = MAX_GAIN
              /\ g_current_gain > CONST_GAIN)

\* C10 witness: the gain is at 10.0 and the filtered block has become silent,
\* so that the AGC leaves the gain as it is
C10_Witness ==
    /\ nCalls >= ConstSettleCalls
    /\ ret.fn = "paCallback"
    /\ ret.input = ConstantBlock
    /\ ret.didSubmit
    /\ ret.submitted = ConstBlock(0)
    /\ g_current_gain = MAX_GAIN

=============================================================================
